---- MODULE Spec2Model ----
(***************************************************************************)
(* A model of tk-houdini-renderman's smart frame-list scheduling,          *)
(* python/tk_houdini_renderman/get_smart_frame_list.py, and of the farm    *)
(* submission dialog that calls it,                                        *)
(* python/tk_houdini_renderman/farm_dialog.py, and of the node callbacks   *)
(* that set up light groups and AOVs and open the dialog,                  *)
(* python/tk_houdini_renderman/handler.py.                                 *)
(*                                                                         *)
(* One call of get_smart_frame_list(input_frame_range, task_size) is run   *)
(* step by step; pc is the position in the function body.  Python strings  *)
(* are sequences of one-character strings, so that formatting (f"{n}"),    *)
(* parsing (int), split and join are computed and not assumed.             *)
(***************************************************************************)
EXTENDS Integers, Sequences, FiniteSets

VARIABLES
    input_frame_range,   \* argument: the range string
    task_size,           \* argument: frames per task
    pc,                  \* position in the function body
    first_frame,         \* line 22
    last_frame,          \* line 23
    total_frames,        \* line 25
    full_tasks,          \* line 26
    leftover_frames,     \* line 27
    frame_list,          \* line 33: the task tokens, left to right
    smart_frame_index_list,               \* line 49: the visit order
    two_indexes_with_largest_difference,  \* line 54: the pair to split
    tasks_to_build,      \* line 52: iterations the bisection loop runs
    task,                \* line 59: iterations of the bisection loop done
    result,              \* the returned string (when pc = "returned")
    raised,              \* the exception raised (when pc = "raised")
    \* FarmSubmission (farm_dialog.py)
    dialog_pc,           \* position in the dialog and its submit handler
    ui_framerange,       \* text of the 'Frame Range' line edit
    ui_frames_per_task,  \* text of the 'Frames Per Task' spin box
    ui_smartframes,      \* 'Use Smart Frame Spreading' is checked
    framerange,          \* line 133 / 144
    frames_per_task,     \* line 134
    job_info,            \* line 172: the job info lines, as key/value pairs
    unsaved_changes,     \* hou.hipFile.hasUnsavedChanges()
    scene_saves,         \* calls of hou.hipFile.save()
    temporary_directory, \* "none", "exists" or "removed"
    job_files,           \* the files written into the temporary directory
    deadline_calls,      \* invocations of deadlinecommand
    messages,            \* texts shown with hou.ui.displayMessage
    debug_log,           \* texts logged with app.logger.debug
    \* TkRenderManNodeHandler (handler.py) and the node it works on
    callback,            \* the callback running: submit_to_farm, execute_render
    handler_pc,          \* position in the callback
    light_groups,        \* the node's light group entries: name and lights
    lpe_tags,            \* the light group parameter of each light of the stage
    aovs_valid,          \* the node's AOV settings pass setup_aovs
    trange,              \* the node's 'trange' parameter
    f1,                  \* the node's 'f1' parameter, in half frames
    f2,                  \* the node's 'f2' parameter, in half frames
    current_frame,       \* hou.frame(), in half frames
    light_groups_result, \* what setup_light_groups returned
    aovs_result,         \* what setup_aovs returned
    directories_created, \* the output directories were created
    render_pressed,      \* the render button of the node was pressed
    handler_messages,    \* texts the handler showed with displayMessage
    \* a second call of get_smart_frame_list, on the same range moved
    call_number,         \* 1 in the first call, 2 in the second
    shift,               \* frames the second range is moved by
    previous_call        \* how the first call ended: pc, result, raised

callVars == <<input_frame_range, task_size, pc, first_frame, last_frame,
              total_frames, full_tasks, leftover_frames, frame_list,
              smart_frame_index_list, two_indexes_with_largest_difference,
              tasks_to_build, task, result, raised>>

dialogVars == <<dialog_pc, ui_framerange, ui_frames_per_task, ui_smartframes,
                framerange, frames_per_task, job_info, unsaved_changes,
                scene_saves, temporary_directory, job_files, deadline_calls,
                messages, debug_log>>

handlerVars == <<callback, handler_pc, light_groups, lpe_tags, aovs_valid,
                 trange, f1, f2, current_frame, light_groups_result,
                 aovs_result, directories_created, render_pressed,
                 handler_messages>>

repeatVars == <<call_number, shift, previous_call>>

vars == <<callVars, dialogVars, handlerVars, repeatVars>>

(***************************************************************************)
(* Bounds of the model and the frames of the documented example.           *)
(***************************************************************************)
\* The first frame of the docstring's example, '1001-1005'.
ExampleFirstFrame == 1001

\* Frames range over ExampleFirstFrame .. ExampleFirstFrame + MaxSpan.
MaxSpan == 9

\* Task sizes range over -MaxBadTaskSize .. MaxTaskSize.
MaxTaskSize == 4

MaxBadTaskSize == 2

Frames == ExampleFirstFrame .. (ExampleFirstFrame + MaxSpan)

TaskSizes == (0 - MaxBadTaskSize) .. MaxTaskSize

(***************************************************************************)
(* Python strings and integers.                                            *)
(***************************************************************************)
DigitChars == <<"0", "1", "2", "3", "4", "5", "6", "7", "8", "9">>

Dash == "-"

Comma == ","

IsDigit(c) == \E d \in 1..10 : DigitChars[d] = c

DigitValue(c) == (CHOOSE d \in 1..10 : DigitChars[d] = c) - 1

RECURSIVE NatToStr(_)
\* The decimal digits of a natural number.
NatToStr(n) ==
    IF n < 10 THEN <<DigitChars[n + 1]>>
    ELSE NatToStr(n \div 10) \o <<DigitChars[(n % 10) + 1]>>

\* f"{n}" for an int n.
Format(n) == IF n < 0 THEN <<Dash>> \o NatToStr(0 - n) ELSE NatToStr(n)

\* Whether int(s) succeeds.  The pieces int() is given come out of
\* split("-"), so they hold no sign; the inputs of the model hold no
\* whitespace, '+' or '_', which int() would also accept.
IsIntLiteral(s) == Len(s) > 0 /\ \A i \in 1..Len(s) : IsDigit(s[i])

RECURSIVE ParseNat(_)
ParseNat(s) ==
    IF Len(s) = 0 THEN 0
    ELSE 10 * ParseNat(SubSeq(s, 1, Len(s) - 1)) + DigitValue(s[Len(s)])

\* int(s), where it succeeds.
ParseInt(s) == ParseNat(s)

\* sep in s
Contains(s, sep) == \E i \in 1..Len(s) : s[i] = sep

RECURSIVE Split(_, _)
\* s.split(sep) for a one-character separator: the pieces between the
\* separators, empty pieces included.
Split(s, sep) ==
    IF ~Contains(s, sep) THEN <<s>>
    ELSE LET i == CHOOSE k \in 1..Len(s) :
                     s[k] = sep /\ \A j \in 1..(k - 1) : s[j] # sep
         IN  <<SubSeq(s, 1, i - 1)>> \o Split(SubSeq(s, i + 1, Len(s)), sep)

RECURSIVE Join(_, _)
\* sep.join(list)
Join(list, sep) ==
    IF Len(list) = 0 THEN <<>>
    ELSE IF Len(list) = 1 THEN list[1]
    ELSE list[1] \o <<sep>> \o Join(Tail(list), sep)

\* a // b for b # 0: Python's floor division.
FloorDiv(a, b) == IF b > 0 THEN a \div b ELSE (0 - a) \div (0 - b)

\* list[i] with Python's indexing: 0-based, a negative index counts from
\* the end, anything outside -len .. len-1 raises IndexError.
InIndexRange(list, i) == (0 - Len(list)) <= i /\ i < Len(list)

PyAt(list, i) == IF i >= 0 THEN list[i + 1] ELSE list[Len(list) + i + 1]

\* The faulty variant rounds a half up.
RoundHalfUp(x) == (x + 1) \div 2

\* round(x / 2) for an int x >= 0: Python 3 rounds a half to the even
\* neighbour.
RoundHalf(x) ==
    LET q == x \div 2
    IN  IF x % 2 = 0 THEN q
        ELSE IF q % 2 = 0 THEN q ELSE q + 1

RECURSIVE Insert(_, _)
Insert(sortedList, x) ==
    IF Len(sortedList) = 0 THEN <<x>>
    ELSE IF x < sortedList[1] THEN <<x>> \o sortedList
    ELSE <<sortedList[1]>> \o Insert(Tail(sortedList), x)

RECURSIVE Sorted(_)
\* sorted(list) for a list of ints.
Sorted(list) ==
    IF Len(list) = 0 THEN <<>>
    ELSE Insert(Sorted(SubSeq(list, 1, Len(list) - 1)), list[Len(list)])

(***************************************************************************)
(* The calls of the model: range strings 'F-L' (also with F > L), single   *)
(* frames 'N', and strings that are no range.                              *)
(***************************************************************************)
RangeString(f, l) == Format(f) \o <<Dash>> \o Format(l)

MalformedStrings ==
    { <<"a", "b", "c">>,
      RangeString(ExampleFirstFrame, ExampleFirstFrame + 4) \o <<Dash>>
          \o Format(ExampleFirstFrame + 8),
      Format(ExampleFirstFrame) \o <<Dash>>,
      <<Dash>> \o RangeString(ExampleFirstFrame, ExampleFirstFrame + 4),
      <<"a">> \o <<Dash>> \o Format(ExampleFirstFrame) }

InputStrings ==
    { RangeString(f, l) : f \in Frames, l \in Frames }
        \cup { Format(f) : f \in Frames }
        \cup MalformedStrings

\* The dialog is not open: the function is called on its own.
NoDialog ==
    /\ dialog_pc = "none"
    /\ ui_framerange = <<>>
    /\ ui_frames_per_task = <<>>
    /\ ui_smartframes = FALSE
    /\ framerange = <<>>
    /\ frames_per_task = 0
    /\ job_info = <<>>
    /\ unsaved_changes = FALSE
    /\ scene_saves = 0
    /\ temporary_directory = "none"
    /\ job_files = {}
    /\ deadline_calls = 0
    /\ messages = <<>>
    /\ debug_log = <<>>

\* No callback of the handler runs.
NoHandler ==
    /\ callback = "none"
    /\ handler_pc = "none"
    /\ light_groups = <<>>
    /\ lpe_tags = <<>>
    /\ aovs_valid = TRUE
    /\ trange = 0
    /\ f1 = 0
    /\ f2 = 0
    /\ current_frame = 0
    /\ light_groups_result = "none"
    /\ aovs_result = "none"
    /\ directories_created = FALSE
    /\ render_pressed = FALSE
    /\ handler_messages = <<>>

\* The function is called once.
NoRepeat ==
    /\ call_number = 1
    /\ shift = 0
    /\ previous_call = [pc |-> "none", result |-> <<>>, raised |-> "none"]

Init ==
    /\ NoDialog
    /\ NoHandler
    /\ NoRepeat
    /\ input_frame_range \in InputStrings
    /\ task_size \in TaskSizes
    /\ pc = "called"
    /\ first_frame = 0
    /\ last_frame = 0
    /\ total_frames = 0
    /\ full_tasks = 0
    /\ leftover_frames = 0
    /\ frame_list = <<>>
    /\ smart_frame_index_list = <<>>
    /\ two_indexes_with_largest_difference = <<>>
    /\ tasks_to_build = 0
    /\ task = 0
    /\ result = <<>>
    /\ raised = "none"

(***************************************************************************)
(* Lines 18-20: a string without '-' is returned as it is.                 *)
(***************************************************************************)
\* Line 20.  The faulty variant lists the frame as the first and the last task.
SingleFrameTwice(range) == range \o <<Comma>> \o range

SingleFrameResult(range) == range

CheckSingleFrame ==
    /\ pc = "called"
    /\ IF ~Contains(input_frame_range, Dash)
       THEN /\ result' = SingleFrameResult(input_frame_range)
            /\ pc' = "returned"
       ELSE /\ pc' = "parse"
            /\ UNCHANGED result
    /\ UNCHANGED dialogVars
    /\ UNCHANGED <<handlerVars, repeatVars>>
    /\ UNCHANGED <<input_frame_range, task_size, first_frame, last_frame,
                   total_frames, full_tasks, leftover_frames, frame_list,
                   smart_frame_index_list,
                   two_indexes_with_largest_difference, tasks_to_build,
                   task, raised>>

(***************************************************************************)
(* Lines 22-23: the first two pieces of split("-") are parsed; int() of a  *)
(* piece that is no number raises ValueError.                              *)
(***************************************************************************)
ParseRange ==
    /\ pc = "parse"
    /\ LET pieces == Split(input_frame_range, Dash)
       IN  IF IsIntLiteral(pieces[1]) /\ IsIntLiteral(pieces[2])
           THEN /\ first_frame' = ParseInt(pieces[1])
                /\ last_frame' = ParseInt(pieces[2])
                /\ pc' = "count"
                /\ UNCHANGED raised
           ELSE /\ raised' = "ValueError"
                /\ pc' = "raised"
                /\ UNCHANGED <<first_frame, last_frame>>
    /\ UNCHANGED dialogVars
    /\ UNCHANGED <<handlerVars, repeatVars>>
    /\ UNCHANGED <<input_frame_range, task_size, total_frames, full_tasks,
                   leftover_frames, frame_list, smart_frame_index_list,
                   two_indexes_with_largest_difference, tasks_to_build,
                   task, result>>

(***************************************************************************)
(* Lines 25-27: the number of frames, of full tasks and of leftover        *)
(* frames; the division raises ZeroDivisionError for a task size of 0.     *)
(***************************************************************************)
TotalFrames(first, last) == last - first + 1

FullTasks(total, size) == FloorDiv(total, size)

LeftoverFrames(total, full, size) == total - full * size

CountTasks ==
    /\ pc = "count"
    /\ LET total == TotalFrames(first_frame, last_frame)
       IN  /\ total_frames' = total
           /\ IF task_size = 0
              THEN /\ raised' = "ZeroDivisionError"
                   /\ pc' = "raised"
                   /\ UNCHANGED <<full_tasks, leftover_frames>>
              ELSE /\ full_tasks' = FullTasks(total, task_size)
                   /\ leftover_frames' =
                          LeftoverFrames(total, FullTasks(total, task_size),
                                         task_size)
                   /\ pc' = "two_frames"
                   /\ UNCHANGED raised
    /\ UNCHANGED dialogVars
    /\ UNCHANGED <<handlerVars, repeatVars>>
    /\ UNCHANGED <<input_frame_range, task_size, first_frame, last_frame,
                   frame_list, smart_frame_index_list,
                   two_indexes_with_largest_difference, tasks_to_build,
                   task, result>>

(***************************************************************************)
(* Lines 29-31: a range of exactly two frames is returned as 'F,L'.        *)
(***************************************************************************)
\* Line 29.  The faulty variant counts the frames between the two ends.
IsTwoFramesBetween(total) == total - 1 = 2

IsTwoFrames(total) == total = 2

TwoFrameResult(first, last) == Format(first) \o <<Comma>> \o Format(last)

TwoFrames ==
    /\ pc = "two_frames"
    /\ IF IsTwoFrames(total_frames)
       THEN /\ result' = TwoFrameResult(first_frame, last_frame)
            /\ pc' = "returned"
       ELSE /\ pc' = "build"
            /\ UNCHANGED result
    /\ UNCHANGED dialogVars
    /\ UNCHANGED <<handlerVars, repeatVars>>
    /\ UNCHANGED <<input_frame_range, task_size, first_frame, last_frame,
                   total_frames, full_tasks, leftover_frames, frame_list,
                   smart_frame_index_list,
                   two_indexes_with_largest_difference, tasks_to_build,
                   task, raised>>

(***************************************************************************)
(* Lines 33-46: the task tokens.  range(full_tasks) is empty when          *)
(* full_tasks <= 0.                                                        *)
(***************************************************************************)
\* Lines 37-38.  The faulty variant starts the tasks at the multiples of
\* the task size.
FirstFrameInTaskAligned(t, size, first) == t * size + first - (first % size)

FirstFrameInTask(t, size, first) == t * size + first

\* The faulty variant leaves out the - 1 of line 38.
LastFrameInTaskOffByOne(t, size, first) == t * size + size + first

LastFrameInTask(t, size, first) == t * size + size + first - 1

\* Lines 35-42: the token of full task t (0-based).
\* The faulty variant renders every full task as a range.
FullTaskTokenAlwaysRange(t, size, first) ==
    Format(FirstFrameInTask(t, size, first)) \o <<Dash>>
        \o Format(LastFrameInTask(t, size, first))

FullTaskToken(t, size, first) ==
    IF size > 1
    THEN Format(FirstFrameInTask(t, size, first)) \o <<Dash>>
             \o Format(LastFrameInTask(t, size, first))
    ELSE Format(t + first)

\* Lines 45-46: the token of the leftover task.
\* The faulty variant renders a single leftover frame without a dash.
LeftoverTokenBySize(full, size, first, last) ==
    IF full * size + first = last THEN Format(last)
    ELSE Format(full * size + first) \o <<Dash>> \o Format(last)

LeftoverToken(full, size, first, last) ==
    Format(full * size + first) \o <<Dash>> \o Format(last)

HasLeftover(leftover) == leftover >= 1

FrameList(full, leftover, size, first, last) ==
    LET fullTokens ==
            IF full > 0
            THEN [t \in 1..full |-> FullTaskToken(t - 1, size, first)]
            ELSE <<>>
    IN  IF HasLeftover(leftover)
        THEN Append(fullTokens, LeftoverToken(full, size, first, last))
        ELSE fullTokens

BuildFrameList ==
    /\ pc = "build"
    /\ frame_list' = FrameList(full_tasks, leftover_frames, task_size,
                               first_frame, last_frame)
    /\ pc' = "order"
    /\ UNCHANGED dialogVars
    /\ UNCHANGED <<handlerVars, repeatVars>>
    /\ UNCHANGED <<input_frame_range, task_size, first_frame, last_frame,
                   total_frames, full_tasks, leftover_frames,
                   smart_frame_index_list,
                   two_indexes_with_largest_difference, tasks_to_build,
                   task, result, raised>>

(***************************************************************************)
(* Lines 48-57: the visit order starts with the first and the last task.   *)
(***************************************************************************)
\* The faulty variant ends the order one task early.
InitialOrderOffByOne(frame_list_length) == <<0, frame_list_length - 2>>

\* The faulty variant ends the order one past the last task.
InitialOrderPastEnd(frame_list_length) == <<0, frame_list_length>>

InitialOrder(frame_list_length) == <<0, frame_list_length - 1>>

\* The faulty variants run the loop once too often and once too few.
TasksToBuildOneMore(frame_list_length) == frame_list_length - 1

TasksToBuildOneLess(frame_list_length) == frame_list_length - 3

TasksToBuild(frame_list_length) == frame_list_length - 2

InitOrder ==
    /\ pc = "order"
    /\ smart_frame_index_list' = InitialOrder(Len(frame_list))
    /\ tasks_to_build' = TasksToBuild(Len(frame_list))
    /\ two_indexes_with_largest_difference' = InitialOrder(Len(frame_list))
    /\ task' = 0
    /\ pc' = "bisect"
    /\ UNCHANGED dialogVars
    /\ UNCHANGED <<handlerVars, repeatVars>>
    /\ UNCHANGED <<input_frame_range, task_size, first_frame, last_frame,
                   total_frames, full_tasks, leftover_frames, frame_list,
                   result, raised>>

(***************************************************************************)
(* Lines 59-96: one iteration of the bisection loop.  The scan runs index  *)
(* over -1 .. len-2, so its first comparison is of the pair                *)
(* (sorted[-1], sorted[0]): the last and the first element.                *)
(***************************************************************************)
\* Line 81.  The faulty variant lets a later pair of equal difference win.
IsBiggerOrEqual(difference, biggest_difference) ==
    difference >= biggest_difference

\* Line 81.  The faulty variant takes the first pair that can be split.
IsFirstSplittable(difference, biggest_difference) ==
    difference >= 2 /\ biggest_difference = 0

IsBigger(difference, biggest_difference) == difference > biggest_difference

\* Lines 78-80.  The faulty variant takes the distance of the two indexes.
DifferenceAbs(sorted, index) ==
    LET d == PyAt(sorted, index + 1) - PyAt(sorted, index)
    IN  IF d < 0 THEN 0 - d ELSE d

Difference(sorted, index) == PyAt(sorted, index + 1) - PyAt(sorted, index)

\* Lines 76-77: the last value of index, range(len) shifted down by one.
\* The faulty variant stops the scan one pair early.
LastScanIndexEarly(sorted) == Len(sorted) - 3

LastScanIndex(sorted) == Len(sorted) - 2

RECURSIVE ScanFrom(_, _, _, _)
\* Lines 76-86, from index on: the pair kept when the scan ends.
ScanFrom(sorted, index, pair, biggest_difference) ==
    IF index > LastScanIndex(sorted) THEN pair
    ELSE LET difference == Difference(sorted, index)
         IN  IF IsBigger(difference, biggest_difference)
             THEN ScanFrom(sorted, index + 1,
                           <<PyAt(sorted, index), PyAt(sorted, index + 1)>>,
                           difference)
             ELSE ScanFrom(sorted, index + 1, pair, biggest_difference)

\* Lines 73-86: the pair is the one of the iteration before when no
\* difference is above 0.
LargestDifferencePair(order, pair) == ScanFrom(Sorted(order), 0 - 1, pair, 0)

\* Lines 89-95.
Midpoint(pair) == RoundHalf(pair[1] + pair[2])

BisectStep ==
    /\ pc = "bisect"
    /\ task < tasks_to_build
    /\ LET pair == LargestDifferencePair(smart_frame_index_list,
                                         two_indexes_with_largest_difference)
       IN  /\ two_indexes_with_largest_difference' = pair
           /\ smart_frame_index_list' =
                  Append(smart_frame_index_list, Midpoint(pair))
    /\ task' = task + 1
    /\ UNCHANGED dialogVars
    /\ UNCHANGED <<handlerVars, repeatVars>>
    /\ UNCHANGED <<input_frame_range, task_size, pc, first_frame, last_frame,
                   total_frames, full_tasks, leftover_frames, frame_list,
                   tasks_to_build, result, raised>>

(***************************************************************************)
(* Lines 98-105: the tokens in visit order, joined with commas.  An index  *)
(* outside the task list raises IndexError.                                *)
(***************************************************************************)
SmartFrameList(order, tokens) ==
    [i \in 1..Len(order) |-> PyAt(tokens, order[i])]

Render ==
    /\ pc = "bisect"
    /\ task >= tasks_to_build
    /\ IF \A i \in 1..Len(smart_frame_index_list) :
              InIndexRange(frame_list, smart_frame_index_list[i])
       THEN /\ result' = Join(SmartFrameList(smart_frame_index_list,
                                             frame_list), Comma)
            /\ pc' = "returned"
            /\ UNCHANGED raised
       ELSE /\ raised' = "IndexError"
            /\ pc' = "raised"
            /\ UNCHANGED result
    /\ UNCHANGED dialogVars
    /\ UNCHANGED <<handlerVars, repeatVars>>
    /\ UNCHANGED <<input_frame_range, task_size, first_frame, last_frame,
                   total_frames, full_tasks, leftover_frames, frame_list,
                   smart_frame_index_list,
                   two_indexes_with_largest_difference, tasks_to_build,
                   task>>

Next ==
    \/ CheckSingleFrame
    \/ ParseRange
    \/ CountTasks
    \/ TwoFrames
    \/ BuildFrameList
    \/ InitOrder
    \/ BisectStep
    \/ Render

Spec == Init /\ [][Next]_vars

(***************************************************************************)
(* FarmSubmission, farm_dialog.py: the dialog is shown with the texts the  *)
(* artist has entered; Submit runs __submit_to_farm, Cancel runs           *)
(* __close_window.  The frames-per-task widget is a spin box of 0 decimals *)
(* and range 0..100 (lines 89-92), so its text is a number of at least 0.  *)
(***************************************************************************)
\* Frames of the ranges entered in the dialog:
\* ExampleFirstFrame .. ExampleFirstFrame + MaxDialogSpan.
MaxDialogSpan == 4

\* Line 91: the lowest value of the frames-per-task spin box.
SpinBoxMinimum == 0

DialogFrames == ExampleFirstFrame .. (ExampleFirstFrame + MaxDialogSpan)

DialogStrings ==
    { RangeString(f, l) : f \in DialogFrames, l \in DialogFrames }
        \cup { Format(f) : f \in DialogFrames }
        \cup { Format(ExampleFirstFrame) \o <<Dash>> }

SpinBoxTexts == { Format(n) : n \in SpinBoxMinimum..MaxTaskSize }

MsgBelowOne == "Submission canceled because frames per task is set below 1."

MsgNotSaved == "Submission canceled because file is not saved."

MsgSubmitted == "Job successfully submitted to Deadline"

LogCreated == "Created temporary directory"

LogError == "An error occured while submitting to farm."

LogRemoved == "Removed temporary directory"

LogCanceled == "Canceled submission"

\* No call of get_smart_frame_list has been made.
NoCall ==
    /\ input_frame_range = <<>>
    /\ task_size = 0
    /\ pc = "idle"
    /\ first_frame = 0
    /\ last_frame = 0
    /\ total_frames = 0
    /\ full_tasks = 0
    /\ leftover_frames = 0
    /\ frame_list = <<>>
    /\ smart_frame_index_list = <<>>
    /\ two_indexes_with_largest_difference = <<>>
    /\ tasks_to_build = 0
    /\ task = 0
    /\ result = <<>>
    /\ raised = "none"

InitDialog ==
    /\ NoCall
    /\ NoHandler
    /\ NoRepeat
    /\ dialog_pc = "shown"
    /\ ui_framerange \in DialogStrings
    /\ ui_frames_per_task \in SpinBoxTexts
    /\ ui_smartframes \in BOOLEAN
    /\ framerange = <<>>
    /\ frames_per_task = 0
    /\ job_info = <<>>
    /\ unsaved_changes \in BOOLEAN
    /\ scene_saves = 0
    /\ temporary_directory = "none"
    /\ job_files = {}
    /\ deadline_calls = 0
    /\ messages = <<>>
    /\ debug_log = <<>>

\* Line 136.  The faulty variant lets a value of 0 through.
IsBelowZero(n) == n < 0

IsBelowOne(n) == n < 1

(***************************************************************************)
(* Lines 129-141: the dialog closes, the fields are read, and a            *)
(* frames-per-task value below 1 ends the handler with a message.          *)
(***************************************************************************)
Submit ==
    /\ dialog_pc = "shown"
    /\ framerange' = ui_framerange
    /\ frames_per_task' = ParseInt(ui_frames_per_task)
    /\ IF IsBelowOne(ParseInt(ui_frames_per_task))
       THEN /\ messages' = Append(messages, MsgBelowOne)
            /\ dialog_pc' = "returned"
       ELSE /\ dialog_pc' = "smartframes"
            /\ UNCHANGED messages
    /\ UNCHANGED <<ui_framerange, ui_frames_per_task, ui_smartframes,
                   job_info, unsaved_changes, scene_saves,
                   temporary_directory, job_files, deadline_calls, debug_log>>
    /\ UNCHANGED callVars
    /\ UNCHANGED <<handlerVars, repeatVars>>

(***************************************************************************)
(* Lines 252-254.                                                          *)
(***************************************************************************)
CloseWindow ==
    /\ dialog_pc = "shown"
    /\ debug_log' = Append(debug_log, LogCanceled)
    /\ dialog_pc' = "closed"
    /\ UNCHANGED <<ui_framerange, ui_frames_per_task, ui_smartframes,
                   framerange, frames_per_task, job_info, unsaved_changes,
                   scene_saves, temporary_directory, job_files,
                   deadline_calls, messages>>
    /\ UNCHANGED callVars
    /\ UNCHANGED <<handlerVars, repeatVars>>

\* Line 143.  The faulty variant reads the check box the wrong way round.
UsesSmartFramesInverted(checked) == ~checked

UsesSmartFrames(checked) == checked

(***************************************************************************)
(* Lines 143-144: with the box checked get_smart_frame_list is called with *)
(* the frame range text and the frames-per-task value.                     *)
(***************************************************************************)
CallSmartFrameList ==
    /\ dialog_pc = "smartframes"
    /\ UsesSmartFrames(ui_smartframes)
    /\ input_frame_range' = framerange
    /\ task_size' = frames_per_task
    /\ pc' = "called"
    /\ dialog_pc' = "in_call"
    /\ UNCHANGED <<first_frame, last_frame, total_frames, full_tasks,
                   leftover_frames, frame_list, smart_frame_index_list,
                   two_indexes_with_largest_difference, tasks_to_build,
                   task, result, raised>>
    /\ UNCHANGED <<ui_framerange, ui_frames_per_task, ui_smartframes,
                   framerange, frames_per_task, job_info, unsaved_changes,
                   scene_saves, temporary_directory, job_files,
                   deadline_calls, messages, debug_log>>
    /\ UNCHANGED <<handlerVars, repeatVars>>

\* Line 143, box not checked: the frame range stays as entered.
KeepFrameRange ==
    /\ dialog_pc = "smartframes"
    /\ ~UsesSmartFrames(ui_smartframes)
    /\ dialog_pc' = "job_info"
    /\ UNCHANGED <<ui_framerange, ui_frames_per_task, ui_smartframes,
                   framerange, frames_per_task, job_info, unsaved_changes,
                   scene_saves, temporary_directory, job_files,
                   deadline_calls, messages, debug_log>>
    /\ UNCHANGED callVars
    /\ UNCHANGED <<handlerVars, repeatVars>>

\* Line 144: the call returns and its result replaces the frame range.
SmartFrameListReturns ==
    /\ dialog_pc = "in_call"
    /\ pc = "returned"
    /\ framerange' = result
    /\ dialog_pc' = "job_info"
    /\ UNCHANGED <<ui_framerange, ui_frames_per_task, ui_smartframes,
                   frames_per_task, job_info, unsaved_changes, scene_saves,
                   temporary_directory, job_files, deadline_calls, messages,
                   debug_log>>
    /\ UNCHANGED callVars
    /\ UNCHANGED <<handlerVars, repeatVars>>

\* Line 144: the call raises; nothing in the handler catches it there.
SmartFrameListRaises ==
    /\ dialog_pc = "in_call"
    /\ pc = "raised"
    /\ dialog_pc' = "raised"
    /\ UNCHANGED <<ui_framerange, ui_frames_per_task, ui_smartframes,
                   framerange, frames_per_task, job_info, unsaved_changes,
                   scene_saves, temporary_directory, job_files,
                   deadline_calls, messages, debug_log>>
    /\ UNCHANGED callVars
    /\ UNCHANGED <<handlerVars, repeatVars>>

\* Lines 172-183: the job info lines the properties are about; the lines
\* with fixed or scene-dependent values are left out.
JobInfo(frames, chunk) ==
    << [key |-> "Frames", value |-> frames],
       [key |-> "ChunkSize", value |-> Format(chunk)] >>

(***************************************************************************)
(* Lines 146-197: the job info and plugin info lines are built.            *)
(***************************************************************************)
BuildJobInfo ==
    /\ dialog_pc = "job_info"
    /\ job_info' = JobInfo(framerange, frames_per_task)
    /\ dialog_pc' = "save_check"
    /\ UNCHANGED <<ui_framerange, ui_frames_per_task, ui_smartframes,
                   framerange, frames_per_task, unsaved_changes, scene_saves,
                   temporary_directory, job_files, deadline_calls, messages,
                   debug_log>>
    /\ UNCHANGED callVars
    /\ UNCHANGED <<handlerVars, repeatVars>>

\* The faulty variant of lines 198-210 lacks the return of line 210.
SaveCheckWithoutReturn ==
    /\ dialog_pc = "save_check"
    /\ IF unsaved_changes
       THEN \E save_message \in BOOLEAN :
                IF save_message
                THEN /\ scene_saves' = scene_saves + 1
                     /\ unsaved_changes' = FALSE
                     /\ UNCHANGED messages
                ELSE /\ messages' = Append(messages, MsgNotSaved)
                     /\ UNCHANGED <<scene_saves, unsaved_changes>>
       ELSE UNCHANGED <<scene_saves, unsaved_changes, messages>>
    /\ dialog_pc' = "mkdtemp"
    /\ UNCHANGED <<ui_framerange, ui_frames_per_task, ui_smartframes,
                   framerange, frames_per_task, job_info,
                   temporary_directory, job_files, deadline_calls, debug_log>>
    /\ UNCHANGED callVars
    /\ UNCHANGED <<handlerVars, repeatVars>>

(***************************************************************************)
(* Lines 198-210: a scene with unsaved changes is saved if the artist      *)
(* confirms; if not, the handler ends with a message.                      *)
(***************************************************************************)
SaveCheck ==
    /\ dialog_pc = "save_check"
    /\ IF unsaved_changes
       THEN \E save_message \in BOOLEAN :
                IF save_message
                THEN /\ scene_saves' = scene_saves + 1
                     /\ unsaved_changes' = FALSE
                     /\ dialog_pc' = "mkdtemp"
                     /\ UNCHANGED messages
                ELSE /\ messages' = Append(messages, MsgNotSaved)
                     /\ dialog_pc' = "returned"
                     /\ UNCHANGED <<scene_saves, unsaved_changes>>
       ELSE /\ dialog_pc' = "mkdtemp"
            /\ UNCHANGED <<scene_saves, unsaved_changes, messages>>
    /\ UNCHANGED <<ui_framerange, ui_frames_per_task, ui_smartframes,
                   framerange, frames_per_task, job_info,
                   temporary_directory, job_files, deadline_calls, debug_log>>
    /\ UNCHANGED callVars
    /\ UNCHANGED <<handlerVars, repeatVars>>

(***************************************************************************)
(* Lines 212-213.                                                          *)
(***************************************************************************)
MakeTemporaryDirectory ==
    /\ dialog_pc = "mkdtemp"
    /\ temporary_directory' = "exists"
    /\ debug_log' = Append(debug_log, LogCreated)
    /\ dialog_pc' = "try"
    /\ UNCHANGED <<ui_framerange, ui_frames_per_task, ui_smartframes,
                   framerange, frames_per_task, job_info, unsaved_changes,
                   scene_saves, job_files, deadline_calls, messages>>
    /\ UNCHANGED callVars
    /\ UNCHANGED <<handlerVars, repeatVars>>

\* What the file system, the environment and deadlinecommand do to the
\* try block of lines 215-241.
SubmissionOutcomes ==
    { "job_info_write_fails",      \* line 220 or 222 raises
      "plugin_info_write_fails",   \* line 229 or 231 raises
      "no_deadline_path",          \* DEADLINE_PATH is not set: line 235 raises
      "deadlinecommand_fails",     \* line 240 raises
      "submitted" }

FilesWritten(outcome) ==
    IF outcome = "job_info_write_fails" THEN {}
    ELSE IF outcome = "plugin_info_write_fails" THEN {"job_info.txt"}
    ELSE {"job_info.txt", "plugin_info.txt"}

DeadlineInvoked(outcome) ==
    outcome \in {"deadlinecommand_fails", "submitted"}

\* Line 241 is reached.  The faulty variant shows the message after the
\* try statement, whatever happened in it.
ShowsSuccessAlways(outcome) == TRUE

ShowsSuccess(outcome) == outcome = "submitted"

\* Lines 243-248: where the handler goes on after the try block.  The
\* faulty variant cleans up at the end of the try block only.
AfterTryBlockOnSuccessOnly(outcome) ==
    IF outcome = "submitted" THEN "finally" ELSE "returned"

AfterTryBlock(outcome) == "finally"

(***************************************************************************)
(* Lines 215-246: the two files are written and deadlinecommand is run;    *)
(* an exception is caught and logged.                                      *)
(***************************************************************************)
WriteAndSubmit ==
    /\ dialog_pc = "try"
    /\ \E outcome \in SubmissionOutcomes :
           /\ job_files' = FilesWritten(outcome)
           /\ deadline_calls' =
                  IF DeadlineInvoked(outcome) THEN deadline_calls + 1
                  ELSE deadline_calls
           /\ messages' = IF ShowsSuccess(outcome)
                          THEN Append(messages, MsgSubmitted)
                          ELSE messages
           /\ debug_log' = IF outcome = "submitted"
                           THEN debug_log
                           ELSE Append(debug_log, LogError)
           /\ dialog_pc' = AfterTryBlock(outcome)
    /\ UNCHANGED <<ui_framerange, ui_frames_per_task, ui_smartframes,
                   framerange, frames_per_task, job_info, unsaved_changes,
                   scene_saves, temporary_directory>>
    /\ UNCHANGED callVars
    /\ UNCHANGED <<handlerVars, repeatVars>>

(***************************************************************************)
(* Lines 248-250: the temporary directory is removed with what it holds.   *)
(***************************************************************************)
RemoveTemporaryDirectory ==
    /\ dialog_pc = "finally"
    /\ temporary_directory' = "removed"
    /\ job_files' = {}
    /\ debug_log' = Append(debug_log, LogRemoved)
    /\ dialog_pc' = "returned"
    /\ UNCHANGED <<ui_framerange, ui_frames_per_task, ui_smartframes,
                   framerange, frames_per_task, job_info, unsaved_changes,
                   scene_saves, deadline_calls, messages>>
    /\ UNCHANGED callVars
    /\ UNCHANGED <<handlerVars, repeatVars>>

NextDialog ==
    \/ Submit
    \/ CloseWindow
    \/ CallSmartFrameList
    \/ KeepFrameRange
    \/ CheckSingleFrame
    \/ ParseRange
    \/ CountTasks
    \/ TwoFrames
    \/ BuildFrameList
    \/ InitOrder
    \/ BisectStep
    \/ Render
    \/ SmartFrameListReturns
    \/ SmartFrameListRaises
    \/ BuildJobInfo
    \/ SaveCheck
    \/ MakeTemporaryDirectory
    \/ WriteAndSubmit
    \/ RemoveTemporaryDirectory

SpecDialog == InitDialog /\ [][NextDialog]_vars

(***************************************************************************)
(* TkRenderManNodeHandler (handler.py): the callbacks of the node's        *)
(* 'Submit to Farm' and 'Render' buttons.  The node is taken to be a LOP   *)
(* node rendered with RenderMan.                                           *)
(***************************************************************************)
\* The node has up to MaxLightGroups light group entries.
MaxLightGroups == 2

\* hou.frame() and the node's f1 are floats: they range, in half frames,
\* over 2 * ExampleFirstFrame .. 2 * ExampleFirstFrame + MaxNodeHalfFrames;
\* f2 is the third frame of that range.
MaxNodeHalfFrames == 6

\* The light nodes of the stage.
StageLights == {"/stage/key", "/stage/fill"}

\* A path that names no node: hou.node returns None for it.
MissingLight == "/stage/gone"

\* Line 210: the values of 'select_light_ops_i', split into paths.
LightSelections ==
    { <<>>,
      <<"/stage/key">>,
      <<"/stage/fill">>,
      <<"/stage/key", "/stage/fill">>,
      <<"/stage/key", "/stage/key">>,
      <<MissingLight>> }

\* Line 207: the values of 'light_group_name_i'.
GroupNames == { <<"A">>, <<"B", "_", "1">>, <<"A", " ", "B">> }

LightGroupEntries == [name : GroupNames, lights : LightSelections]

RECURSIVE EntryLists(_)
\* The lists of up to n light group entries.
EntryLists(n) ==
    IF n = 0 THEN { <<>> }
    ELSE LET shorter == EntryLists(n - 1)
         IN  shorter \cup
                 { Append(list, entry) :
                       list \in { x \in shorter : Len(x) = n - 1 },
                       entry \in LightGroupEntries }

LowerCase ==
    { "a", "b", "c", "d", "e", "f", "g", "h", "i", "j", "k", "l", "m",
      "n", "o", "p", "q", "r", "s", "t", "u", "v", "w", "x", "y", "z" }

UpperCase ==
    { "A", "B", "C", "D", "E", "F", "G", "H", "I", "J", "K", "L", "M",
      "N", "O", "P", "Q", "R", "S", "T", "U", "V", "W", "X", "Y", "Z" }

\* Line 214: re.match(r"^[A-Za-z0-9_]+$", light_group)
IsValidName(name) ==
    /\ Len(name) > 0
    /\ \A i \in 1..Len(name) :
           \/ name[i] \in UpperCase \cup LowerCase \cup {"_"}
           \/ IsDigit(name[i])

\* Line 235: f"LG_{light_group}"
LgTag(name) == <<"L", "G", "_">> \o name

\* Line 193: expression.startswith("LG_")
StartsWithLG(expression) ==
    Len(expression) >= 3 /\ SubSeq(expression, 1, 3) = <<"L", "G", "_">>

RECURSIVE ExpressionsToKeep(_)
\* Lines 190-194: the expressions that are not ours, put together.
ExpressionsToKeep(expressions) ==
    IF expressions = <<>> THEN <<>>
    ELSE (IF StartsWithLG(Head(expressions)) THEN <<>>
          ELSE Head(expressions))
             \o ExpressionsToKeep(Tail(expressions))

\* Lines 181-196: the light group parameter of every light loses the
\* LG_ tags.  A parameter value is the list of its expressions.
ClearLpeTags(tags) ==
    [light \in DOMAIN tags |->
        LET kept == ExpressionsToKeep(tags[light])
        IN  IF kept = <<>> THEN <<>> ELSE <<kept>>]

\* Line 210: light_groups_info[light_group_name] = ...; a dict keeps one
\* value per key, at the place where the key came in first.
DictSet(dict, key, value) ==
    IF \E i \in 1..Len(dict) : dict[i].name = key
    THEN [i \in 1..Len(dict) |->
             IF dict[i].name = key THEN [name |-> key, lights |-> value]
             ELSE dict[i]]
    ELSE Append(dict, [name |-> key, lights |-> value])

RECURSIVE LightGroupsInfo(_)
\* Lines 199-210: the dict built from the entries of the node.
LightGroupsInfo(entries) ==
    IF entries = <<>> THEN <<>>
    ELSE LET n == Len(entries)
         IN  DictSet(LightGroupsInfo(SubSeq(entries, 1, n - 1)),
                     entries[n].name, entries[n].lights)

MsgInvalidName ==
    "Error: Invalid light group name. You can only use letters, numbers and underscores."

MsgSeveralGroups ==
    "Error: Node is in several light groups. A light can only be in one group."

MsgCantSet == "Error: Can't set LPE tags for node in light group list."

\* Line 225: light not in lights_list
NotInLightsList(light, lights_list) ==
    \A i \in 1..Len(lights_list) : lights_list[i] # light

RECURSIVE SetLpeTags(_, _, _, _, _)
\* Lines 212-249 and 293, from light l of group g of the dict on: what the
\* function returns, the parameters of the lights and the message shown.
SetLpeTags(info, g, l, lights_list, tags) ==
    IF g > Len(info)
    THEN [ok |-> TRUE, tags |-> tags, messages |-> <<>>]
    ELSE IF l = 1 /\ ~IsValidName(info[g].name)
    THEN [ok |-> FALSE, tags |-> tags, messages |-> <<MsgInvalidName>>]
    ELSE IF l > Len(info[g].lights)
    THEN SetLpeTags(info, g + 1, 1, lights_list, tags)
    ELSE LET light == info[g].lights[l]
         IN  IF ~NotInLightsList(light, lights_list)
             THEN [ok |-> FALSE, tags |-> tags,
                   messages |-> <<MsgSeveralGroups>>]
             ELSE IF light \notin StageLights
             THEN [ok |-> FALSE, tags |-> tags, messages |-> <<MsgCantSet>>]
             ELSE SetLpeTags(info, g, l + 1, Append(lights_list, light),
                             [tags EXCEPT ![light] = <<LgTag(info[g].name)>>])

\* setup_light_groups(node, RenderEngine.RENDERMAN, False)
SetupLightGroupsResult(entries, tags) ==
    SetLpeTags(LightGroupsInfo(entries), 1, 1, <<>>, ClearLpeTags(tags))

\* Lines 59-60 and 103-104: where the callback goes on after
\* setup_light_groups.  The faulty variant ignores what it returned.
AfterSetupLightGroupsIgnored(ok) == "setup_aovs"

AfterSetupLightGroups(ok) == IF ok THEN "setup_aovs" ELSE "returned"

\* Lines 61-62 and 105-106: where the callback goes on after setup_aovs.
AfterSetupAovs(ok) == IF ok THEN "create_directories" ELSE "returned"

\* Python's str(bool).
BoolStr(b) == IF b THEN "True" ELSE "False"

\* int(x) for a float x >= 0 given in half frames.
IntOfHalfFrames(halves) == halves \div 2

\* Lines 879-890: get_output_range.
GetOutputRange(framerange_type, start, end, frame) ==
    IF framerange_type > 0
    THEN <<IntOfHalfFrames(start), IntOfHalfFrames(end)>>
    ELSE <<IntOfHalfFrames(frame), IntOfHalfFrames(frame)>>

\* Line 78: f"{framerange[0]}-{framerange[1]}"
FrameRangeText(range) == Format(range[1]) \o <<Dash>> \o Format(range[2])

TrangeValues == 0..2

NodeFrameValues ==
    { 2 * ExampleFirstFrame + h : h \in 0..MaxNodeHalfFrames }

\* Lights carry what an earlier setup and the artist left on them.
StaleTags ==
    [light \in StageLights |->
        IF light = "/stage/key"
        THEN <<LgTag(<<"o", "l", "d">>), <<"C", "<", "R", "D", ">">>>>
        ELSE <<>>]

\* A node before one of its buttons is pressed.
HandlerIdle(entry_lists, tranges, frame_values) ==
    /\ callback = "none"
    /\ handler_pc = "idle"
    /\ light_groups \in entry_lists
    /\ lpe_tags = StaleTags
    /\ aovs_valid \in BOOLEAN
    /\ trange \in tranges
    /\ f1 \in frame_values
    /\ f2 = 2 * (ExampleFirstFrame + 2)
    /\ current_frame \in frame_values
    /\ light_groups_result = "none"
    /\ aovs_result = "none"
    /\ directories_created = FALSE
    /\ render_pressed = FALSE
    /\ handler_messages = <<>>

InitHandler ==
    /\ NoCall
    /\ NoDialog
    /\ NoRepeat
    /\ HandlerIdle(EntryLists(MaxLightGroups), {0}, {2 * ExampleFirstFrame})

\* Line 53: the 'Submit to Farm' button.
SubmitToFarm ==
    /\ handler_pc = "idle"
    /\ callback' = "submit_to_farm"
    /\ handler_pc' = "setup_light_groups"
    /\ UNCHANGED <<light_groups, lpe_tags, aovs_valid, trange, f1, f2,
                   current_frame, light_groups_result, aovs_result,
                   directories_created, render_pressed, handler_messages>>
    /\ UNCHANGED <<callVars, dialogVars, repeatVars>>

\* Line 97: the 'Render' button.
ExecuteRender ==
    /\ handler_pc = "idle"
    /\ callback' = "execute_render"
    /\ handler_pc' = "setup_light_groups"
    /\ UNCHANGED <<light_groups, lpe_tags, aovs_valid, trange, f1, f2,
                   current_frame, light_groups_result, aovs_result,
                   directories_created, render_pressed, handler_messages>>
    /\ UNCHANGED <<callVars, dialogVars, repeatVars>>

\* Lines 59-60 and 103-104, with setup_light_groups (lines 149-293).
SetupLightGroups ==
    /\ handler_pc = "setup_light_groups"
    /\ LET returned == SetupLightGroupsResult(light_groups, lpe_tags)
       IN  /\ lpe_tags' = returned.tags
           /\ handler_messages' = handler_messages \o returned.messages
           /\ light_groups_result' = BoolStr(returned.ok)
           /\ handler_pc' = AfterSetupLightGroups(returned.ok)
    /\ UNCHANGED <<callback, light_groups, aovs_valid, trange, f1, f2,
                   current_frame, aovs_result, directories_created,
                   render_pressed>>
    /\ UNCHANGED <<callVars, dialogVars, repeatVars>>

\* Lines 61-62 and 105-106: setup_aovs returns False at lines 394, 545 and
\* 637, and True at line 774.
SetupAovs ==
    /\ handler_pc = "setup_aovs"
    /\ aovs_result' = BoolStr(aovs_valid)
    /\ handler_pc' = AfterSetupAovs(aovs_valid)
    /\ UNCHANGED <<callback, light_groups, lpe_tags, aovs_valid, trange, f1,
                   f2, current_frame, light_groups_result,
                   directories_created, render_pressed, handler_messages>>
    /\ UNCHANGED <<callVars, dialogVars, repeatVars>>

\* Lines 67-70 and 110-113.
CreateDirectories ==
    /\ handler_pc = "create_directories"
    /\ directories_created' = TRUE
    /\ handler_pc' = IF callback = "submit_to_farm" THEN "show_dialog"
                     ELSE "press_render"
    /\ UNCHANGED <<callback, light_groups, lpe_tags, aovs_valid, trange, f1,
                   f2, current_frame, light_groups_result, aovs_result,
                   render_pressed, handler_messages>>
    /\ UNCHANGED <<callVars, dialogVars, repeatVars>>

\* Lines 72-95: the dialog opens on the node's range; farm_dialog.py lines
\* 77, 92 and 102 give the widgets their first values.
ShowDialog ==
    /\ handler_pc = "show_dialog"
    /\ dialog_pc' = "shown"
    /\ ui_framerange' =
           FrameRangeText(GetOutputRange(trange, f1, f2, current_frame))
    /\ ui_frames_per_task' = Format(1)
    /\ ui_smartframes' = FALSE
    /\ handler_pc' = "returned"
    /\ UNCHANGED <<framerange, frames_per_task, job_info, unsaved_changes,
                   scene_saves, temporary_directory, job_files,
                   deadline_calls, messages, debug_log>>
    /\ UNCHANGED <<callback, light_groups, lpe_tags, aovs_valid, trange, f1,
                   f2, current_frame, light_groups_result, aovs_result,
                   directories_created, render_pressed, handler_messages>>
    /\ UNCHANGED <<callVars, repeatVars>>

\* Lines 115-121.
PressRender ==
    /\ handler_pc = "press_render"
    /\ render_pressed' = TRUE
    /\ handler_pc' = "returned"
    /\ UNCHANGED <<callback, light_groups, lpe_tags, aovs_valid, trange, f1,
                   f2, current_frame, light_groups_result, aovs_result,
                   directories_created, handler_messages>>
    /\ UNCHANGED <<callVars, dialogVars, repeatVars>>

NextHandler ==
    \/ SubmitToFarm
    \/ ExecuteRender
    \/ SetupLightGroups
    \/ SetupAovs
    \/ CreateDirectories
    \/ ShowDialog
    \/ PressRender

SpecHandler == InitHandler /\ [][NextHandler]_vars

(***************************************************************************)
(* A submission from the button to Deadline: submit_to_farm opens the      *)
(* dialog, the artist sets the frames per task and the smart frame box and *)
(* presses Submit or Cancel.                                               *)
(***************************************************************************)
\* Light group entries that pass the setup and entries that do not.
FarmEntryLists ==
    { <<>>, <<[name |-> <<"A", " ", "B">>, lights |-> <<>>]>> }

InitFarm ==
    /\ NoCall
    /\ NoRepeat
    /\ dialog_pc = "none"
    /\ ui_framerange = <<>>
    /\ ui_frames_per_task = <<>>
    /\ ui_smartframes = FALSE
    /\ framerange = <<>>
    /\ frames_per_task = 0
    /\ job_info = <<>>
    /\ unsaved_changes \in BOOLEAN
    /\ scene_saves = 0
    /\ temporary_directory = "none"
    /\ job_files = {}
    /\ deadline_calls = 0
    /\ messages = <<>>
    /\ debug_log = <<>>
    /\ HandlerIdle(FarmEntryLists, 0..1, NodeFrameValues)

\* farm_dialog.py lines 89-92: the artist sets the 'Frames Per Task' spin box.
SetFramesPerTask ==
    /\ dialog_pc = "shown"
    /\ \E value \in SpinBoxMinimum..MaxTaskSize :
           ui_frames_per_task' = Format(value)
    /\ UNCHANGED <<dialog_pc, ui_framerange, ui_smartframes, framerange,
                   frames_per_task, job_info, unsaved_changes, scene_saves,
                   temporary_directory, job_files, deadline_calls, messages,
                   debug_log>>
    /\ UNCHANGED <<callVars, handlerVars, repeatVars>>

\* farm_dialog.py line 102: the artist clicks 'Use Smart Frame Spreading'.
ToggleSmartFrames ==
    /\ dialog_pc = "shown"
    /\ ui_smartframes' = ~ui_smartframes
    /\ UNCHANGED <<dialog_pc, ui_framerange, ui_frames_per_task, framerange,
                   frames_per_task, job_info, unsaved_changes, scene_saves,
                   temporary_directory, job_files, deadline_calls, messages,
                   debug_log>>
    /\ UNCHANGED <<callVars, handlerVars, repeatVars>>

NextFarm ==
    \/ SubmitToFarm
    \/ SetupLightGroups
    \/ SetupAovs
    \/ CreateDirectories
    \/ ShowDialog
    \/ SetFramesPerTask
    \/ ToggleSmartFrames
    \/ Submit
    \/ CloseWindow
    \/ CallSmartFrameList
    \/ KeepFrameRange
    \/ CheckSingleFrame
    \/ ParseRange
    \/ CountTasks
    \/ TwoFrames
    \/ BuildFrameList
    \/ InitOrder
    \/ BisectStep
    \/ Render
    \/ SmartFrameListReturns
    \/ SmartFrameListRaises
    \/ BuildJobInfo
    \/ SaveCheck
    \/ MakeTemporaryDirectory
    \/ WriteAndSubmit
    \/ RemoveTemporaryDirectory

SpecFarm == InitFarm /\ [][NextFarm]_vars

(***************************************************************************)
(* get_smart_frame_list called on a range and then, with the same task     *)
(* size, on the range moved by some frames.                                *)
(***************************************************************************)
\* The second range is the first moved by 1..MaxShift frames.
MaxShift == 2

InitShift ==
    /\ NoDialog
    /\ NoHandler
    /\ NoRepeat
    /\ input_frame_range \in { RangeString(f, l) : f \in Frames, l \in Frames }
    /\ task_size \in TaskSizes
    /\ pc = "called"
    /\ first_frame = 0
    /\ last_frame = 0
    /\ total_frames = 0
    /\ full_tasks = 0
    /\ leftover_frames = 0
    /\ frame_list = <<>>
    /\ smart_frame_index_list = <<>>
    /\ two_indexes_with_largest_difference = <<>>
    /\ tasks_to_build = 0
    /\ task = 0
    /\ result = <<>>
    /\ raised = "none"

\* Lines 4-18: the function is entered again, on the moved range.
ShiftedCall ==
    /\ call_number = 1
    /\ pc \in {"returned", "raised"}
    /\ \E k \in 1..MaxShift :
           /\ shift' = k
           /\ input_frame_range' =
                  LET pieces == Split(input_frame_range, Dash)
                  IN  RangeString(ParseInt(pieces[1]) + k,
                                  ParseInt(pieces[2]) + k)
    /\ previous_call' = [pc |-> pc, result |-> result, raised |-> raised]
    /\ call_number' = 2
    /\ pc' = "called"
    /\ first_frame' = 0
    /\ last_frame' = 0
    /\ total_frames' = 0
    /\ full_tasks' = 0
    /\ leftover_frames' = 0
    /\ frame_list' = <<>>
    /\ smart_frame_index_list' = <<>>
    /\ two_indexes_with_largest_difference' = <<>>
    /\ tasks_to_build' = 0
    /\ task' = 0
    /\ result' = <<>>
    /\ raised' = "none"
    /\ UNCHANGED task_size
    /\ UNCHANGED <<dialogVars, handlerVars>>

NextShift ==
    \/ CheckSingleFrame
    \/ ParseRange
    \/ CountTasks
    \/ TwoFrames
    \/ BuildFrameList
    \/ InitOrder
    \/ BisectStep
    \/ Render
    \/ ShiftedCall

SpecShift == InitShift /\ [][NextShift]_vars

(***************************************************************************)
(* What the properties below read off a call: the range the input string   *)
(* denotes, the number of tasks, and the frames the output denotes.        *)
(***************************************************************************)
Returned == pc = "returned"

Finished == pc \in {"returned", "raised"}

InputPieces == Split(input_frame_range, Dash)

\* The input is 'F-L' with two numbers.
IsRange ==
    /\ Len(InputPieces) = 2
    /\ IsIntLiteral(InputPieces[1])
    /\ IsIntLiteral(InputPieces[2])

\* The input is 'N' with one number.
IsSingleFrame == Len(InputPieces) = 1 /\ IsIntLiteral(InputPieces[1])

RangeFirst == ParseInt(InputPieces[1])

RangeLast == ParseInt(InputPieces[2])

\* A valid input: 'F-L' with F <= L and a task size of at least 1.
ValidCall == IsRange /\ RangeFirst <= RangeLast /\ task_size >= 1

NumFrames == RangeLast - RangeFirst + 1

\* T = floor(N / taskSize) + (1 if N mod taskSize > 0 else 0)
NumTasks ==
    (NumFrames \div task_size) + (IF NumFrames % task_size > 0 THEN 1 ELSE 0)

OutputTokens == Split(result, Comma)

\* A token 'a-b' denotes a..b, a token 'n' denotes n.
TokenFirst(token) == ParseInt(Split(token, Dash)[1])

TokenLast(token) ==
    LET pieces == Split(token, Dash) IN ParseInt(pieces[Len(pieces)])

TokenSize(token) == TokenLast(token) - TokenFirst(token) + 1

RECURSIVE FramesOfTokens(_)
\* The frames a token list denotes, in order, with repetitions.
FramesOfTokens(tokens) ==
    IF Len(tokens) = 0 THEN <<>>
    ELSE [i \in 1..TokenSize(tokens[1]) |-> TokenFirst(tokens[1]) + i - 1]
             \o FramesOfTokens(Tail(tokens))

Count(x, list) == Cardinality({i \in 1..Len(list) : list[i] = x})

\* list holds each of 0..n-1 exactly once.
IsPermutationOfIndices(list, n) ==
    /\ Len(list) = n
    /\ \A k \in 0..(n - 1) : Count(k, list) = 1

\* The string of the decimal number n with the digits given, for the
\* documented examples.
Token1001 == <<"1", "0", "0", "1">>

Token1002 == <<"1", "0", "0", "2">>

Token1003 == <<"1", "0", "0", "3">>

Token1004 == <<"1", "0", "0", "4">>

Token1005 == <<"1", "0", "0", "5">>

Token1006 == <<"1", "0", "0", "6">>

Token1007 == <<"1", "0", "0", "7">>

Token1009 == <<"1", "0", "0", "9">>

Token1010 == <<"1", "0", "1", "0">>

(***************************************************************************)
(* C1: for every valid input ('F-L' with F <= L, task size >= 1) the       *)
(* frames denoted by the output tokens are exactly F..L, each frame once:  *)
(* no gaps and no duplicates.                                              *)
(***************************************************************************)
C1_EachFrameExactlyOnce ==
    (Returned /\ ValidCall) =>
        /\ Len(FramesOfTokens(OutputTokens)) = NumFrames
        /\ \A f \in RangeFirst..RangeLast :
               Count(f, FramesOfTokens(OutputTokens)) = 1

(***************************************************************************)
(* C2: for every valid input the visit order is a permutation of the task  *)
(* indices 0..T-1 and the output holds every task token exactly once, so   *)
(* the output has T tokens.  Stated here for the inputs that reach the     *)
(* bisection (not the two-frame ranges, which are returned before any      *)
(* task is built and yield two tokens also when T = 1).                    *)
(***************************************************************************)
C2_OutputIsPermutationOfTasks ==
    (Returned /\ ValidCall /\ NumFrames # 2) =>
        /\ Len(OutputTokens) = NumTasks
        /\ IsPermutationOfIndices(smart_frame_index_list, NumTasks)
        /\ \A t \in 1..Len(frame_list) : Count(frame_list[t], OutputTokens) = 1

(***************************************************************************)
(* C3: when more than two tasks are built, the visit order starts with     *)
(* index 0 followed by index T-1: the first output token starts at the     *)
(* range's first frame and the second ends at the range's last frame.      *)
(***************************************************************************)
C3_FirstTwoSpread ==
    (Returned /\ ValidCall /\ Len(frame_list) > 2) =>
        /\ smart_frame_index_list[1] = 0
        /\ smart_frame_index_list[2] = Len(frame_list) - 1
        /\ TokenFirst(OutputTokens[1]) = RangeFirst
        /\ TokenLast(OutputTokens[2]) = RangeLast

C3_Witness ==
    /\ Returned
    /\ ValidCall
    /\ Len(frame_list) > 2
    /\ task_size > 1
    /\ leftover_frames >= 1

(***************************************************************************)
(* C4: get_smart_frame_list('1001-1005', 1) returns                        *)
(* '1001,1005,1003,1002,1004', the task index order 0,4,2,1,3.             *)
(***************************************************************************)
C4_IsDocumentedCall ==
    /\ input_frame_range = Token1001 \o <<"-">> \o Token1005
    /\ task_size = 1

C4_DocumentedExample ==
    (Finished /\ C4_IsDocumentedCall) =>
        /\ Returned
        /\ smart_frame_index_list = <<0, 4, 2, 1, 3>>
        /\ result = Token1001 \o <<",">> \o Token1005 \o <<",">> \o Token1003
                        \o <<",">> \o Token1002 \o <<",">> \o Token1004

C4_Witness == Returned /\ C4_IsDocumentedCall

(***************************************************************************)
(* C5: for a valid input of N frames, N not 2, the tasks built are         *)
(* contiguous and in left-to-right order from the first frame; each of the *)
(* floor(N/s) full tasks holds s frames and, if N mod s > 0, one final     *)
(* task holds the N mod s frames left, ending at the last frame.           *)
(* '1001-1010' with s = 3 gives 1001-1003, 1004-1006, 1007-1009,           *)
(* 1010-1010.                                                              *)
(***************************************************************************)
C5_IsChunkingCall ==
    /\ input_frame_range = Token1001 \o <<"-">> \o Token1010
    /\ task_size = 3

C5_TaskPartition ==
    (pc \in {"order", "bisect"} /\ ValidCall /\ NumFrames # 2) =>
        LET T == Len(frame_list)
            full == NumFrames \div task_size
            rest == NumFrames % task_size
        IN  /\ T = full + (IF rest > 0 THEN 1 ELSE 0)
            /\ TokenFirst(frame_list[1]) = RangeFirst
            /\ TokenLast(frame_list[T]) = RangeLast
            /\ \A t \in 1..(T - 1) :
                   TokenFirst(frame_list[t + 1]) = TokenLast(frame_list[t]) + 1
            /\ \A t \in 1..full : TokenSize(frame_list[t]) = task_size
            /\ rest > 0 => TokenSize(frame_list[T]) = rest
            /\ C5_IsChunkingCall =>
                   frame_list = << Token1001 \o <<"-">> \o Token1003,
                                   Token1004 \o <<"-">> \o Token1006,
                                   Token1007 \o <<"-">> \o Token1009,
                                   Token1010 \o <<"-">> \o Token1010 >>

C5_Witness == pc = "order" /\ C5_IsChunkingCall /\ Len(frame_list) = 4

(***************************************************************************)
(* C6: a range string without '-' is returned unchanged, whatever the task *)
(* size, and no task is built and no order computed.                       *)
(***************************************************************************)
C6_SingleFrameUnchanged ==
    (pc # "called" /\ \A i \in 1..Len(input_frame_range) :
                          input_frame_range[i] # "-") =>
        /\ Returned
        /\ result = input_frame_range
        /\ frame_list = <<>>
        /\ smart_frame_index_list = <<>>

C6_Witness ==
    /\ Returned
    /\ IsSingleFrame
    /\ task_size > 1
    /\ result = input_frame_range

C8_IsMalformed ==
    /\ ~IsSingleFrame
    /\ ~(IsRange /\ RangeFirst <= RangeLast)

C8_MalformedRangeRaises ==
    (Finished /\ C8_IsMalformed /\ task_size >= 1) => pc = "raised"

(***************************************************************************)
(* C9: a task size below 1 makes the call fail with an error and produce   *)
(* no output string, for every range string.  Stated here for the strings  *)
(* that are a single frame or a range with first <= last, so that the      *)
(* task size is all that is wrong with the call.                           *)
(***************************************************************************)
C9_BadTaskSizeRaises ==
    (Finished /\ ~C8_IsMalformed /\ task_size < 1) => pc = "raised"

(***************************************************************************)
(* What the properties of the bisection loop read off a state in which at  *)
(* least one iteration has run: the order the iteration started from, its  *)
(* ascending arrangement, the pair it chose and the index it appended.     *)
(***************************************************************************)
InLoop == pc \in {"bisect", "returned"} /\ task >= 1

OrderBefore ==
    SubSeq(smart_frame_index_list, 1, Len(smart_frame_index_list) - 1)

SortedBefore == Sorted(OrderBefore)

Appended == smart_frame_index_list[Len(smart_frame_index_list)]

ChosenPair == two_indexes_with_largest_difference

\* The gap of the k-th adjacent pair of an ascending list, k in 1..Len-1.
Gap(S, k) == S[k + 1] - S[k]

\* The largest gap between adjacent elements of an ascending list.
MaxGap(S) ==
    CHOOSE g \in {Gap(S, k) : k \in 1..(Len(S) - 1)} :
        \A k \in 1..(Len(S) - 1) : Gap(S, k) <= g

(***************************************************************************)
(* C13: in each iteration of the bisection loop the pair split is an       *)
(* adjacent pair (S[k], S[k+1]) of the ascending-sorted order whose gap is *)
(* the largest among all adjacent pairs, and among pairs of equal largest  *)
(* gap it is the leftmost.                                                 *)
(***************************************************************************)
C13_LeftmostLargestGap ==
    InLoop =>
        \E k \in 1..(Len(SortedBefore) - 1) :
            /\ ChosenPair = <<SortedBefore[k], SortedBefore[k + 1]>>
            /\ \A j \in 1..(Len(SortedBefore) - 1) :
                   /\ Gap(SortedBefore, j) <= Gap(SortedBefore, k)
                   /\ j < k => Gap(SortedBefore, j) < Gap(SortedBefore, k)

\* An iteration that had two pairs of the largest gap to choose from.
C13_Witness ==
    /\ InLoop
    /\ Cardinality({k \in 1..(Len(SortedBefore) - 1) :
                        Gap(SortedBefore, k) = MaxGap(SortedBefore)}) >= 2
    /\ ChosenPair[2] - ChosenPair[1] = MaxGap(SortedBefore)

(***************************************************************************)
(* C14, as the spec states it: the index appended is the mean of the       *)
(* chosen pair rounded half-up, m = floor((S[k] + S[k+1]) / 2 + 1/2): for  *)
(* the pair (0,5) the appended index is 3.                                 *)
(***************************************************************************)
C14_MidpointRoundsHalfUp ==
    InLoop => Appended = (ChosenPair[1] + ChosenPair[2] + 1) \div 2

(***************************************************************************)
(* C14, amended: the index appended is the mean of the chosen pair rounded *)
(* half to even: the mean itself when S[k] + S[k+1] is even, and the even  *)
(* one of the two middle indices when it is odd (for the pair (0,5) the    *)
(* appended index is 2).                                                   *)
(***************************************************************************)
C14_MidpointRoundsHalfEven ==
    InLoop =>
        LET sum == ChosenPair[1] + ChosenPair[2]
        IN  /\ sum % 2 = 0 => 2 * Appended = sum
            /\ sum % 2 = 1 =>
                   /\ Appended % 2 = 0
                   /\ 2 * Appended \in {sum - 1, sum + 1}
            /\ ChosenPair = <<0, 5>> => Appended = 2

C14_Witness == InLoop /\ ChosenPair = <<0, 5>> /\ Appended = 2

(***************************************************************************)
(* C15: in every iteration the chosen pair has a gap of at least 2 and the *)
(* appended midpoint m satisfies S[k] < m < S[k+1]; m is not yet in the    *)
(* order, and the order holds no index twice while the loop runs.          *)
(***************************************************************************)
C15_MidpointIsNew ==
    /\ InLoop =>
           /\ ChosenPair[2] - ChosenPair[1] >= 2
           /\ ChosenPair[1] < Appended
           /\ Appended < ChosenPair[2]
           /\ Count(Appended, OrderBefore) = 0
    /\ (pc \in {"bisect", "returned"} /\ tasks_to_build >= 1) =>
           \A i \in 1..Len(smart_frame_index_list) :
               Count(smart_frame_index_list[i], smart_frame_index_list) = 1

\* The last iteration of a loop that ran more than once.
C15_Witness ==
    /\ InLoop
    /\ task = tasks_to_build
    /\ task >= 3
    /\ ChosenPair[2] - ChosenPair[1] = 2

(***************************************************************************)
(* C16: the scan, which starts at index -1 and so also compares the        *)
(* wraparound pair (S[last], S[0]), selects the same pair as a scan over   *)
(* the non-wrapping adjacent pairs only, first occurrence winning on ties; *)
(* the wraparound pair is never selected.                                  *)
(***************************************************************************)
RECURSIVE C16_ScanPairs(_, _, _, _)
\* The scan over the adjacent pairs k .. Len-1 of S, none of them wrapping.
C16_ScanPairs(S, k, pair, biggest) ==
    IF k > Len(S) - 1 THEN pair
    ELSE IF Gap(S, k) > biggest
         THEN C16_ScanPairs(S, k + 1, <<S[k], S[k + 1]>>, Gap(S, k))
         ELSE C16_ScanPairs(S, k + 1, pair, biggest)

C16_WraparoundNeverSelected ==
    InLoop =>
        /\ ChosenPair = C16_ScanPairs(SortedBefore, 1, <<>>, 0)
        /\ ChosenPair # <<SortedBefore[Len(SortedBefore)], SortedBefore[1]>>
        /\ SortedBefore[1] - SortedBefore[Len(SortedBefore)] <= 0

C16_Witness ==
    /\ InLoop
    /\ Len(SortedBefore) >= 3
    /\ ChosenPair = C16_ScanPairs(SortedBefore, 1, <<>>, 0)
    /\ ChosenPair[1] # SortedBefore[1]

(***************************************************************************)
(* C17: across the iterations of the bisection loop the gap chosen for     *)
(* splitting never increases, and the largest gap between adjacent visited *)
(* indexes after k+1 emitted tokens is at most the one after k.            *)
(***************************************************************************)
C17_GapsNeverIncrease ==
    [][BisectStep =>
           /\ two_indexes_with_largest_difference'[2]
                  - two_indexes_with_largest_difference'[1]
                <= two_indexes_with_largest_difference[2]
                       - two_indexes_with_largest_difference[1]
           /\ MaxGap(Sorted(smart_frame_index_list'))
                <= MaxGap(Sorted(smart_frame_index_list))]_vars

\* An iteration that split a smaller gap than the one before it.
C17_Witness ==
    /\ InLoop
    /\ task >= 2
    /\ ChosenPair[2] - ChosenPair[1] < MaxGap(<<0, Len(frame_list) - 1>>)
    /\ MaxGap(Sorted(smart_frame_index_list)) < ChosenPair[2] - ChosenPair[1]

C19_HasDash(token) == \E i \in 1..Len(token) : token[i] = "-"

C19_TokensRenderedBySize ==
    (Returned /\ ValidCall) =>
        \A i \in 1..Len(OutputTokens) :
            /\ C19_HasDash(OutputTokens[i]) =>
                   TokenFirst(OutputTokens[i]) < TokenLast(OutputTokens[i])
            /\ task_size = 1 => ~C19_HasDash(OutputTokens[i])

(***************************************************************************)
(* C19, amended: a full task is rendered by the task size, 'f' with no     *)
(* dash for task size 1 and 'f-l' with f < l for a larger one; the         *)
(* leftover task is always rendered 'f-l', which is 'N-N' when one frame   *)
(* is left; a two-frame range gives the two tokens 'F' and 'L'.  With task *)
(* size 1 no token holds a dash.                                           *)
(***************************************************************************)
C19_TokensRenderedByTaskKind ==
    (Returned /\ ValidCall) =>
        \A i \in 1..Len(OutputTokens) :
            LET token == OutputTokens[i]
                isLeftover ==
                    /\ NumFrames % task_size >= 1
                    /\ NumFrames # 2
                    /\ TokenLast(token) = RangeLast
            IN  /\ isLeftover => C19_HasDash(token)
                /\ isLeftover =>
                       TokenSize(token) = NumFrames % task_size
                /\ (~isLeftover /\ NumFrames # 2) =>
                       /\ TokenSize(token) = task_size
                       /\ C19_HasDash(token) <=> task_size > 1
                /\ NumFrames = 2 => ~C19_HasDash(token)
                /\ task_size = 1 => ~C19_HasDash(token)

\* A call that returns full tasks of several frames and one leftover frame.
C19_Witness ==
    /\ Returned
    /\ ValidCall
    /\ task_size > 1
    /\ NumFrames % task_size = 1
    /\ Len(OutputTokens) >= 3
    /\ \E i \in 1..Len(OutputTokens) :
           /\ C19_HasDash(OutputTokens[i])
           /\ TokenFirst(OutputTokens[i]) = TokenLast(OutputTokens[i])

(***************************************************************************)
(* C20: for every input with first <= last, task size >= 1 and at least    *)
(* two tasks (last - first + 1 > task size) the final visit order has      *)
(* length T and holds each index 0..T-1 exactly once, and the output       *)
(* denotes each frame of first..last exactly once.  (A two-frame range is  *)
(* returned before a visit order is built; its output is checked.)         *)
(***************************************************************************)
C20_PermutationFromTwoTasksOn ==
    (Finished /\ ValidCall /\ NumFrames > task_size) =>
        /\ Returned
        /\ Len(OutputTokens) = NumTasks
        /\ NumFrames # 2 =>
               IsPermutationOfIndices(smart_frame_index_list, NumTasks)
        /\ Len(FramesOfTokens(OutputTokens)) = NumFrames
        /\ \A f \in RangeFirst..RangeLast :
               Count(f, FramesOfTokens(OutputTokens)) = 1

C20_Witness ==
    /\ Returned
    /\ ValidCall
    /\ NumTasks >= 4
    /\ NumFrames % task_size >= 1
    /\ IsPermutationOfIndices(smart_frame_index_list, NumTasks)

(***************************************************************************)
(* What the properties of the dialog read off a state.                     *)
(***************************************************************************)
\* Submit has been pressed.
SubmitPressed == dialog_pc \notin {"none", "shown", "closed"}

\* The value of the job info line 'key=...'.
JobValue(key) ==
    job_info[CHOOSE i \in 1..Len(job_info) : job_info[i].key = key].value

(***************************************************************************)
(* C11: when the frames-per-task value is below 1 as Submit is pressed,    *)
(* the submission is aborted with a message: get_smart_frame_list is never *)
(* called with a task size below 1, no temporary directory or job file is  *)
(* created, and deadlinecommand is not invoked.                            *)
(***************************************************************************)
C11_BelowOneAborts ==
    /\ (pc # "idle" /\ dialog_pc # "none") => task_size >= 1
    /\ (SubmitPressed /\ ParseInt(ui_frames_per_task) < 1) =>
           /\ dialog_pc = "returned"
           /\ messages = <<MsgBelowOne>>
           /\ pc = "idle"
           /\ job_info = <<>>
           /\ temporary_directory = "none"
           /\ job_files = {}
           /\ deadline_calls = 0

C11_Witness ==
    /\ dialog_pc = "returned"
    /\ ui_frames_per_task = <<"0">>
    /\ ui_smartframes
    /\ messages = <<MsgBelowOne>>

(***************************************************************************)
(* C12: the 'Frames=' line of the job info is the result of                *)
(* get_smart_frame_list(frame range text, frames per task) when 'Use Smart *)
(* Frame Spreading' is checked, and the frame range text as entered when   *)
(* it is not; 'ChunkSize=' is the frames-per-task value in both cases.     *)
(***************************************************************************)
C12_FramesLine ==
    job_info # <<>> =>
        /\ ui_smartframes =>
               /\ pc = "returned"
               /\ input_frame_range = ui_framerange
               /\ task_size = ParseInt(ui_frames_per_task)
               /\ JobValue("Frames") = result
        /\ ~ui_smartframes =>
               /\ pc = "idle"
               /\ JobValue("Frames") = ui_framerange
        /\ IsIntLiteral(JobValue("ChunkSize"))
        /\ ParseInt(JobValue("ChunkSize")) = ParseInt(ui_frames_per_task)

\* A job info whose frames are the reordered range.
C12_Witness ==
    /\ job_info # <<>>
    /\ ui_smartframes
    /\ ParseInt(ui_frames_per_task) > 1
    /\ JobValue("Frames") = result
    /\ JobValue("Frames") # ui_framerange
    /\ Len(frame_list) >= 3

(***************************************************************************)
(* C21: for an input 'F-L' with F <= L and a task size of at least 1,      *)
(* every index placed in the visiting order lies in 0..T-1, T being the    *)
(* number of task tokens built, so the lookup of the tokens never goes out *)
(* of bounds and the call returns a string.                                *)
(***************************************************************************)
C21_IndexesInBounds ==
    ValidCall =>
        /\ \A i \in 1..Len(smart_frame_index_list) :
               smart_frame_index_list[i] \in 0..(Len(frame_list) - 1)
        /\ Finished => (Returned /\ raised = "none")

\* A returned call whose order has grown up to the last task.
C21_Witness ==
    /\ Returned
    /\ ValidCall
    /\ Len(frame_list) >= 4
    /\ Len(smart_frame_index_list) = Len(frame_list)
    /\ smart_frame_index_list[2] = Len(frame_list) - 1

(***************************************************************************)
(* C24: a temporary directory created for a submission is removed before   *)
(* the submit handler returns, whether the job was submitted, writing a    *)
(* job file raised, or deadlinecommand raised or could not be located.     *)
(***************************************************************************)
C24_TemporaryDirectoryRemoved ==
    /\ dialog_pc \in {"returned", "raised", "closed"} =>
           /\ temporary_directory # "exists"
           /\ job_files = {}
           /\ Count(LogCreated, debug_log) = Count(LogRemoved, debug_log)
    /\ temporary_directory = "exists" => dialog_pc \in {"try", "finally"}

\* The handler has returned after deadlinecommand raised, and the directory
\* is gone.
C24_Witness ==
    /\ dialog_pc = "returned"
    /\ temporary_directory = "removed"
    /\ Count(LogError, debug_log) = 1
    /\ Count(LogRemoved, debug_log) = 1

(***************************************************************************)
(* C25: with unsaved changes in the scene, the job is submitted only after *)
(* the scene was saved: the save comes before the temporary directory, the *)
(* job files and deadlinecommand, and if the artist declines, the handler  *)
(* shows 'Submission canceled because file is not saved.' and returns      *)
(* without any of them.                                                    *)
(***************************************************************************)
C25_SubmittedOnlyWhenSaved ==
    /\ (temporary_directory # "none" \/ job_files # {} \/ deadline_calls > 0)
           => ~unsaved_changes
    /\ scene_saves > 0 => ~unsaved_changes
    /\ Count(MsgNotSaved, messages) > 0 =>
           /\ dialog_pc = "returned"
           /\ messages = <<MsgNotSaved>>
           /\ unsaved_changes
           /\ scene_saves = 0
           /\ temporary_directory = "none"
           /\ job_files = {}
           /\ deadline_calls = 0

\* deadlinecommand has run for a scene that was saved on confirmation.
C25_Witness ==
    /\ scene_saves = 1
    /\ deadline_calls = 1
    /\ ~unsaved_changes

(***************************************************************************)
(* C26: 'Job successfully submitted to Deadline' is shown only if          *)
(* deadlinecommand was invoked and returned without raising; when writing  *)
(* the job files or running deadlinecommand raises, the exception is       *)
(* caught and only logged at debug level: the handler returns normally and *)
(* shows no message.                                                       *)
(***************************************************************************)
C26_SuccessOnlyAfterDeadline ==
    /\ Count(MsgSubmitted, messages) > 0 =>
           /\ deadline_calls = 1
           /\ Count(LogError, debug_log) = 0
    /\ Count(LogError, debug_log) > 0 =>
           /\ messages = <<>>
           /\ dialog_pc \in {"finally", "returned"}

\* The handler has returned after deadlinecommand raised.
C26_Witness ==
    /\ dialog_pc = "returned"
    /\ deadline_calls = 1
    /\ Count(LogError, debug_log) = 1
    /\ messages = <<>>

(***************************************************************************)
(* C27: in submit_to_farm and execute_render the light group setup runs    *)
(* first and the AOV setup second; setup_aovs is not called when           *)
(* setup_light_groups returned False, and the output directories are       *)
(* created and the dialog shown (or the render button pressed) only if     *)
(* both returned True.                                                     *)
(***************************************************************************)
C27_SetupsGuardTheRest ==
    /\ aovs_result # "none" => light_groups_result = "True"
    /\ light_groups_result = "False" =>
           aovs_result = "none" /\ handler_pc = "returned"
    /\ aovs_result = "False" => handler_pc = "returned"
    /\ (directories_created \/ dialog_pc # "none" \/ render_pressed) =>
           light_groups_result = "True" /\ aovs_result = "True"
    /\ (dialog_pc # "none" \/ render_pressed) => directories_created
    /\ dialog_pc # "none" => callback = "submit_to_farm"
    /\ render_pressed => callback = "execute_render"

\* The dialog is shown for a node with two light groups.
C27_Witness ==
    /\ callback = "submit_to_farm"
    /\ handler_pc = "returned"
    /\ dialog_pc = "shown"
    /\ directories_created
    /\ Len(light_groups) = 2
    /\ light_groups[2].lights # <<>>

(***************************************************************************)
(* C28: a light can only be in one light group: whenever the same light    *)
(* path is listed in more than one light group entry of the node,          *)
(* setup_light_groups shows an error and returns False; it returns True    *)
(* only when every listed light belongs to exactly one entry and carries   *)
(* the tag 'LG_<name>' of that entry's group.                              *)
(***************************************************************************)
C28_ListsLight(entry, light) ==
    \E k \in 1..Len(entry.lights) : entry.lights[k] = light

C28_OneGroupPerLight ==
    light_groups_result # "none" =>
        /\ (\E i, j \in 1..Len(light_groups) :
               /\ i < j
               /\ \E light \in StageLights \cup {MissingLight} :
                      /\ C28_ListsLight(light_groups[i], light)
                      /\ C28_ListsLight(light_groups[j], light))
               => (light_groups_result = "False" /\ handler_messages # <<>>)
        /\ light_groups_result = "True" =>
               \A i \in 1..Len(light_groups) :
                   \A k \in 1..Len(light_groups[i].lights) :
                       LET light == light_groups[i].lights[k]
                       IN  /\ \A j \in 1..Len(light_groups) :
                                  j # i =>
                                      ~C28_ListsLight(light_groups[j], light)
                           /\ light \in StageLights
                           /\ lpe_tags[light] =
                                  <<LgTag(light_groups[i].name)>>

(***************************************************************************)
(* C22: for a current-frame render (trange = 0) submit_to_farm fills the   *)
(* dialog's frame range with 'N-N', N being the current frame; when the    *)
(* artist submits that range with 'Use Smart Frame Spreading' checked and  *)
(* a frames-per-task value of at least 1, the 'Frames=' value of the job   *)
(* denotes frame N exactly once.                                           *)
(***************************************************************************)
C22_CurrentFrame == IntOfHalfFrames(current_frame)

C22_CurrentFrameOnce ==
    /\ (dialog_pc # "none" /\ trange = 0) =>
           ui_framerange = RangeString(C22_CurrentFrame, C22_CurrentFrame)
    /\ (job_info # <<>> /\ trange = 0 /\ ui_smartframes) =>
           FramesOfTokens(Split(JobValue("Frames"), Comma))
               = <<C22_CurrentFrame>>

(***************************************************************************)
(* C23: the visiting order depends only on the number of tasks: moving the *)
(* range by k frames, with the same task size, gives the same output with  *)
(* every frame number increased by k, token by token.                      *)
(***************************************************************************)
C23_PreviousTokens == Split(previous_call.result, Comma)

C23_ShiftInvariant ==
    (call_number = 2 /\ Finished) =>
        /\ pc = previous_call.pc
        /\ raised = previous_call.raised
        /\ Returned =>
               /\ Len(OutputTokens) = Len(C23_PreviousTokens)
               /\ \A i \in 1..Len(OutputTokens) :
                      /\ Contains(OutputTokens[i], Dash)
                             = Contains(C23_PreviousTokens[i], Dash)
                      /\ TokenFirst(OutputTokens[i])
                             = TokenFirst(C23_PreviousTokens[i]) + shift
                      /\ TokenLast(OutputTokens[i])
                             = TokenLast(C23_PreviousTokens[i]) + shift

\* The second call has returned four or more tasks of several frames, two
\* frames after the first call's.
C23_Witness ==
    /\ call_number = 2
    /\ Returned
    /\ shift = 2
    /\ task_size = 2
    /\ Len(OutputTokens) >= 4
    /\ leftover_frames = 1

====
